---------------------------- MODULE Spec2Model ----------------------------
(***************************************************************************)
(* Model of src/main1.py: the invoice allocation pipeline                  *)
(* (process_excel_file) and the upload operation that drives it            *)
(* (process_invoice).                                                      *)
(*                                                                         *)
(* Files are modelled by their parsed content.  A spreadsheet is a         *)
(* sequence of rows of cells; a PDF is the sequence of text lines of its   *)
(* first page; the template is the first row of its 'Item Upload' sheet;   *)
(* the master file is a two-column sheet.  Text that the code inspects     *)
(* character by character (the amount in the PDF, the master codes, the    *)
(* cells of the output rows) is a sequence of one-character strings.       *)
(* Amounts are exact: a finite amount is an integer number of cents, and   *)
(* the float values inf, -inf and nan keep their IEEE meaning.             *)
(***************************************************************************)
EXTENDS Integers, Sequences, FiniteSets, TLC

\* ------------------------------------------------------------------ bounds

\* Most leading rows in front of the header row of an uploaded spreadsheet.
MaxLead == 5
\* Largest number of groups of the wide spreadsheets (one row per group).
MaxGroups == 101
\* Largest absolute net amount of a line item of the enumerated spreadsheets.
MaxNet == 2

\* ------------------------------------------------------- program constants

\* for skip in range(5)
SkipTries == 5
\* upc_value.zfill(12)
UpcWidth == 12
\* while len(data_rows) < 100
MinRows == 100
\* round(r['Allocated Amount'], 2), and the \d{2} of the amount pattern
Decimals == 2

\* Finite amounts are integers in units of 10^-Decimals (cents).
CentsPerUnit == 10 ^ Decimals

\* ------------------------------------------------------------ cell values

\* A cell of a spreadsheet: text, a number, or empty (NaN once parsed).
Str(s) == [t |-> "str", s |-> s, n |-> 0]
Num(n) == [t |-> "num", s |-> "", n |-> n]
NaN == [t |-> "nan", s |-> "", n |-> 0]

\* pd.isna
isna(c) == c.t = "nan"

KEY_COL == "L01 Material Price Group Key"
AMT_COL == "Inv Net Amt"
MAT_COL == "Material"

\* ------------------------------------------------------------ sequences

Range(s) == {s[i] : i \in 1..Len(s)}

\* list.index / DataFrame column lookup: the first position holding v, 0 if none
IndexOf(s, v) ==
  IF \E i \in 1..Len(s) : s[i] = v
  THEN CHOOSE i \in 1..Len(s) : s[i] = v /\ \A j \in 1..(i - 1) : s[j] # v
  ELSE 0

\* ------------------------------------------------------------ read_excel

\* pd.read_excel(path, skiprows=skip): the rows after the first `skip` ones;
\* the first of them is the header, the rest is the data.  A sheet with no
\* row left parses to an empty frame with no columns.
read_excel(sheet, skip) ==
  IF skip >= Len(sheet)
  THEN [columns |-> <<>>, rows |-> <<>>]
  ELSE [columns |-> sheet[skip + 1],
        rows |-> SubSeq(sheet, skip + 2, Len(sheet))]

\* 'L01 ...' in df.columns and 'Inv Net Amt' in df.columns and 'Material' in df.columns
HasRequiredColumns(df) ==
  /\ Str(KEY_COL) \in Range(df.columns)
  /\ Str(AMT_COL) \in Range(df.columns)
  /\ Str(MAT_COL) \in Range(df.columns)

\* The header loop with one try too few: for skip in range(4).
RECURSIVE LocateHeader_FourTries(_, _)
LocateHeader_FourTries(sheet, skip) ==
  IF skip >= SkipTries - 1 THEN SkipTries
  ELSE IF HasRequiredColumns(read_excel(sheet, skip)) THEN skip
  ELSE LocateHeader_FourTries(sheet, skip + 1)

\* for skip in range(5): ... break / else: return -- the loop from `skip` on.
\* The result is the skip count the loop breaks at, or SkipTries when the
\* loop runs to its else branch.
RECURSIVE LocateHeader(_, _)
LocateHeader(sheet, skip) ==
  IF skip >= SkipTries THEN SkipTries
  ELSE IF HasRequiredColumns(read_excel(sheet, skip)) THEN skip
  ELSE LocateHeader(sheet, skip + 1)

\* df[[key, amount, material]] row by row: the three columns the pipeline reads
Project(df) ==
  LET k == IndexOf(df.columns, Str(KEY_COL))
      a == IndexOf(df.columns, Str(AMT_COL))
      m == IndexOf(df.columns, Str(MAT_COL))
  IN [i \in 1..Len(df.rows) |->
        [key |-> df.rows[i][k], net |-> df.rows[i][a], material |-> df.rows[i][m]]]

\* ------------------------------------------------------------------ text

\* A character is a one-character string; a character TLA+ strings cannot
\* hold is written by its code point, "U+0661".

\* The digits str() writes
DigitChars == <<"0", "1", "2", "3", "4", "5", "6", "7", "8", "9">>

\* The decimal digits (Unicode class Nd, Unicode 14: 660 characters), ten per
\* script from zero to nine, the ASCII digits first.
DigitBlocks ==
  <<DigitChars,
    <<"U+0660", "U+0661", "U+0662", "U+0663", "U+0664",
      "U+0665", "U+0666", "U+0667", "U+0668", "U+0669">>,
    <<"U+06F0", "U+06F1", "U+06F2", "U+06F3", "U+06F4",
      "U+06F5", "U+06F6", "U+06F7", "U+06F8", "U+06F9">>,
    <<"U+07C0", "U+07C1", "U+07C2", "U+07C3", "U+07C4",
      "U+07C5", "U+07C6", "U+07C7", "U+07C8", "U+07C9">>,
    <<"U+0966", "U+0967", "U+0968", "U+0969", "U+096A",
      "U+096B", "U+096C", "U+096D", "U+096E", "U+096F">>,
    <<"U+09E6", "U+09E7", "U+09E8", "U+09E9", "U+09EA",
      "U+09EB", "U+09EC", "U+09ED", "U+09EE", "U+09EF">>,
    <<"U+0A66", "U+0A67", "U+0A68", "U+0A69", "U+0A6A",
      "U+0A6B", "U+0A6C", "U+0A6D", "U+0A6E", "U+0A6F">>,
    <<"U+0AE6", "U+0AE7", "U+0AE8", "U+0AE9", "U+0AEA",
      "U+0AEB", "U+0AEC", "U+0AED", "U+0AEE", "U+0AEF">>,
    <<"U+0B66", "U+0B67", "U+0B68", "U+0B69", "U+0B6A",
      "U+0B6B", "U+0B6C", "U+0B6D", "U+0B6E", "U+0B6F">>,
    <<"U+0BE6", "U+0BE7", "U+0BE8", "U+0BE9", "U+0BEA",
      "U+0BEB", "U+0BEC", "U+0BED", "U+0BEE", "U+0BEF">>,
    <<"U+0C66", "U+0C67", "U+0C68", "U+0C69", "U+0C6A",
      "U+0C6B", "U+0C6C", "U+0C6D", "U+0C6E", "U+0C6F">>,
    <<"U+0CE6", "U+0CE7", "U+0CE8", "U+0CE9", "U+0CEA",
      "U+0CEB", "U+0CEC", "U+0CED", "U+0CEE", "U+0CEF">>,
    <<"U+0D66", "U+0D67", "U+0D68", "U+0D69", "U+0D6A",
      "U+0D6B", "U+0D6C", "U+0D6D", "U+0D6E", "U+0D6F">>,
    <<"U+0DE6", "U+0DE7", "U+0DE8", "U+0DE9", "U+0DEA",
      "U+0DEB", "U+0DEC", "U+0DED", "U+0DEE", "U+0DEF">>,
    <<"U+0E50", "U+0E51", "U+0E52", "U+0E53", "U+0E54",
      "U+0E55", "U+0E56", "U+0E57", "U+0E58", "U+0E59">>,
    <<"U+0ED0", "U+0ED1", "U+0ED2", "U+0ED3", "U+0ED4",
      "U+0ED5", "U+0ED6", "U+0ED7", "U+0ED8", "U+0ED9">>,
    <<"U+0F20", "U+0F21", "U+0F22", "U+0F23", "U+0F24",
      "U+0F25", "U+0F26", "U+0F27", "U+0F28", "U+0F29">>,
    <<"U+1040", "U+1041", "U+1042", "U+1043", "U+1044",
      "U+1045", "U+1046", "U+1047", "U+1048", "U+1049">>,
    <<"U+1090", "U+1091", "U+1092", "U+1093", "U+1094",
      "U+1095", "U+1096", "U+1097", "U+1098", "U+1099">>,
    <<"U+17E0", "U+17E1", "U+17E2", "U+17E3", "U+17E4",
      "U+17E5", "U+17E6", "U+17E7", "U+17E8", "U+17E9">>,
    <<"U+1810", "U+1811", "U+1812", "U+1813", "U+1814",
      "U+1815", "U+1816", "U+1817", "U+1818", "U+1819">>,
    <<"U+1946", "U+1947", "U+1948", "U+1949", "U+194A",
      "U+194B", "U+194C", "U+194D", "U+194E", "U+194F">>,
    <<"U+19D0", "U+19D1", "U+19D2", "U+19D3", "U+19D4",
      "U+19D5", "U+19D6", "U+19D7", "U+19D8", "U+19D9">>,
    <<"U+1A80", "U+1A81", "U+1A82", "U+1A83", "U+1A84",
      "U+1A85", "U+1A86", "U+1A87", "U+1A88", "U+1A89">>,
    <<"U+1A90", "U+1A91", "U+1A92", "U+1A93", "U+1A94",
      "U+1A95", "U+1A96", "U+1A97", "U+1A98", "U+1A99">>,
    <<"U+1B50", "U+1B51", "U+1B52", "U+1B53", "U+1B54",
      "U+1B55", "U+1B56", "U+1B57", "U+1B58", "U+1B59">>,
    <<"U+1BB0", "U+1BB1", "U+1BB2", "U+1BB3", "U+1BB4",
      "U+1BB5", "U+1BB6", "U+1BB7", "U+1BB8", "U+1BB9">>,
    <<"U+1C40", "U+1C41", "U+1C42", "U+1C43", "U+1C44",
      "U+1C45", "U+1C46", "U+1C47", "U+1C48", "U+1C49">>,
    <<"U+1C50", "U+1C51", "U+1C52", "U+1C53", "U+1C54",
      "U+1C55", "U+1C56", "U+1C57", "U+1C58", "U+1C59">>,
    <<"U+A620", "U+A621", "U+A622", "U+A623", "U+A624",
      "U+A625", "U+A626", "U+A627", "U+A628", "U+A629">>,
    <<"U+A8D0", "U+A8D1", "U+A8D2", "U+A8D3", "U+A8D4",
      "U+A8D5", "U+A8D6", "U+A8D7", "U+A8D8", "U+A8D9">>,
    <<"U+A900", "U+A901", "U+A902", "U+A903", "U+A904",
      "U+A905", "U+A906", "U+A907", "U+A908", "U+A909">>,
    <<"U+A9D0", "U+A9D1", "U+A9D2", "U+A9D3", "U+A9D4",
      "U+A9D5", "U+A9D6", "U+A9D7", "U+A9D8", "U+A9D9">>,
    <<"U+A9F0", "U+A9F1", "U+A9F2", "U+A9F3", "U+A9F4",
      "U+A9F5", "U+A9F6", "U+A9F7", "U+A9F8", "U+A9F9">>,
    <<"U+AA50", "U+AA51", "U+AA52", "U+AA53", "U+AA54",
      "U+AA55", "U+AA56", "U+AA57", "U+AA58", "U+AA59">>,
    <<"U+ABF0", "U+ABF1", "U+ABF2", "U+ABF3", "U+ABF4",
      "U+ABF5", "U+ABF6", "U+ABF7", "U+ABF8", "U+ABF9">>,
    <<"U+FF10", "U+FF11", "U+FF12", "U+FF13", "U+FF14",
      "U+FF15", "U+FF16", "U+FF17", "U+FF18", "U+FF19">>,
    <<"U+104A0", "U+104A1", "U+104A2", "U+104A3", "U+104A4",
      "U+104A5", "U+104A6", "U+104A7", "U+104A8", "U+104A9">>,
    <<"U+10D30", "U+10D31", "U+10D32", "U+10D33", "U+10D34",
      "U+10D35", "U+10D36", "U+10D37", "U+10D38", "U+10D39">>,
    <<"U+11066", "U+11067", "U+11068", "U+11069", "U+1106A",
      "U+1106B", "U+1106C", "U+1106D", "U+1106E", "U+1106F">>,
    <<"U+110F0", "U+110F1", "U+110F2", "U+110F3", "U+110F4",
      "U+110F5", "U+110F6", "U+110F7", "U+110F8", "U+110F9">>,
    <<"U+11136", "U+11137", "U+11138", "U+11139", "U+1113A",
      "U+1113B", "U+1113C", "U+1113D", "U+1113E", "U+1113F">>,
    <<"U+111D0", "U+111D1", "U+111D2", "U+111D3", "U+111D4",
      "U+111D5", "U+111D6", "U+111D7", "U+111D8", "U+111D9">>,
    <<"U+112F0", "U+112F1", "U+112F2", "U+112F3", "U+112F4",
      "U+112F5", "U+112F6", "U+112F7", "U+112F8", "U+112F9">>,
    <<"U+11450", "U+11451", "U+11452", "U+11453", "U+11454",
      "U+11455", "U+11456", "U+11457", "U+11458", "U+11459">>,
    <<"U+114D0", "U+114D1", "U+114D2", "U+114D3", "U+114D4",
      "U+114D5", "U+114D6", "U+114D7", "U+114D8", "U+114D9">>,
    <<"U+11650", "U+11651", "U+11652", "U+11653", "U+11654",
      "U+11655", "U+11656", "U+11657", "U+11658", "U+11659">>,
    <<"U+116C0", "U+116C1", "U+116C2", "U+116C3", "U+116C4",
      "U+116C5", "U+116C6", "U+116C7", "U+116C8", "U+116C9">>,
    <<"U+11730", "U+11731", "U+11732", "U+11733", "U+11734",
      "U+11735", "U+11736", "U+11737", "U+11738", "U+11739">>,
    <<"U+118E0", "U+118E1", "U+118E2", "U+118E3", "U+118E4",
      "U+118E5", "U+118E6", "U+118E7", "U+118E8", "U+118E9">>,
    <<"U+11950", "U+11951", "U+11952", "U+11953", "U+11954",
      "U+11955", "U+11956", "U+11957", "U+11958", "U+11959">>,
    <<"U+11C50", "U+11C51", "U+11C52", "U+11C53", "U+11C54",
      "U+11C55", "U+11C56", "U+11C57", "U+11C58", "U+11C59">>,
    <<"U+11D50", "U+11D51", "U+11D52", "U+11D53", "U+11D54",
      "U+11D55", "U+11D56", "U+11D57", "U+11D58", "U+11D59">>,
    <<"U+11DA0", "U+11DA1", "U+11DA2", "U+11DA3", "U+11DA4",
      "U+11DA5", "U+11DA6", "U+11DA7", "U+11DA8", "U+11DA9">>,
    <<"U+16A60", "U+16A61", "U+16A62", "U+16A63", "U+16A64",
      "U+16A65", "U+16A66", "U+16A67", "U+16A68", "U+16A69">>,
    <<"U+16AC0", "U+16AC1", "U+16AC2", "U+16AC3", "U+16AC4",
      "U+16AC5", "U+16AC6", "U+16AC7", "U+16AC8", "U+16AC9">>,
    <<"U+16B50", "U+16B51", "U+16B52", "U+16B53", "U+16B54",
      "U+16B55", "U+16B56", "U+16B57", "U+16B58", "U+16B59">>,
    <<"U+1D7CE", "U+1D7CF", "U+1D7D0", "U+1D7D1", "U+1D7D2",
      "U+1D7D3", "U+1D7D4", "U+1D7D5", "U+1D7D6", "U+1D7D7">>,
    <<"U+1D7D8", "U+1D7D9", "U+1D7DA", "U+1D7DB", "U+1D7DC",
      "U+1D7DD", "U+1D7DE", "U+1D7DF", "U+1D7E0", "U+1D7E1">>,
    <<"U+1D7E2", "U+1D7E3", "U+1D7E4", "U+1D7E5", "U+1D7E6",
      "U+1D7E7", "U+1D7E8", "U+1D7E9", "U+1D7EA", "U+1D7EB">>,
    <<"U+1D7EC", "U+1D7ED", "U+1D7EE", "U+1D7EF", "U+1D7F0",
      "U+1D7F1", "U+1D7F2", "U+1D7F3", "U+1D7F4", "U+1D7F5">>,
    <<"U+1D7F6", "U+1D7F7", "U+1D7F8", "U+1D7F9", "U+1D7FA",
      "U+1D7FB", "U+1D7FC", "U+1D7FD", "U+1D7FE", "U+1D7FF">>,
    <<"U+1E140", "U+1E141", "U+1E142", "U+1E143", "U+1E144",
      "U+1E145", "U+1E146", "U+1E147", "U+1E148", "U+1E149">>,
    <<"U+1E2F0", "U+1E2F1", "U+1E2F2", "U+1E2F3", "U+1E2F4",
      "U+1E2F5", "U+1E2F6", "U+1E2F7", "U+1E2F8", "U+1E2F9">>,
    <<"U+1E950", "U+1E951", "U+1E952", "U+1E953", "U+1E954",
      "U+1E955", "U+1E956", "U+1E957", "U+1E958", "U+1E959">>,
    <<"U+1FBF0", "U+1FBF1", "U+1FBF2", "U+1FBF3", "U+1FBF4",
      "U+1FBF5", "U+1FBF6", "U+1FBF7", "U+1FBF8", "U+1FBF9">>>>

Nd == UNION {Range(DigitBlocks[b]) : b \in 1..Len(DigitBlocks)}

\* \d of a str pattern, and the digits int() and float() read: class Nd
IsDigit(c) == c \in Nd

\* The value float() and int() give a digit: its place in its script
DigitVal(c) ==
  LET b == CHOOSE b \in 1..Len(DigitBlocks) : c \in Range(DigitBlocks[b])
  IN IndexOf(DigitBlocks[b], c) - 1

\* str(n) of an integer n
RECURSIVE NatToStr(_)
NatToStr(n) ==
  IF n < 10 THEN <<DigitChars[n + 1]>>
  ELSE NatToStr(n \div 10) \o <<DigitChars[(n % 10) + 1]>>

IntToStr(n) == IF n < 0 THEN <<"-">> \o NatToStr(-n) ELSE NatToStr(n)

\* The characters str.isspace() holds for: what str.strip() removes
WHITESPACE ==
  {" ", "\t", "\n", "\r", "\f", "U+000B", "U+001C", "U+001D", "U+001E",
   "U+001F", "U+0085", "U+00A0", "U+1680", "U+2000", "U+2001", "U+2002",
   "U+2003", "U+2004", "U+2005", "U+2006", "U+2007", "U+2008", "U+2009",
   "U+200A", "U+2028", "U+2029", "U+202F", "U+205F", "U+3000"}

\* The white space int() skips around a literal: the four ASCII separators
\* U+001C..U+001F are not part of it.
INT_WHITESPACE == WHITESPACE \ {"U+001C", "U+001D", "U+001E", "U+001F"}

\* s without its leading, and without its trailing, characters of `chars`
RECURSIVE TrimLeft(_, _)
TrimLeft(s, chars) ==
  IF s # <<>> /\ Head(s) \in chars THEN TrimLeft(Tail(s), chars) ELSE s

RECURSIVE TrimRight(_, _)
TrimRight(s, chars) ==
  IF s # <<>> /\ s[Len(s)] \in chars
  THEN TrimRight(SubSeq(s, 1, Len(s) - 1), chars) ELSE s

\* str.strip(): leading and trailing white space removed
lstrip(s) == TrimLeft(s, WHITESPACE)

rstrip(s) == TrimRight(s, WHITESPACE)

strip(s) == rstrip(lstrip(s))

\* n copies of "0"
Zeros(n) == [i \in 1..n |-> "0"]

\* str.zfill(width): zeros on the left up to `width` characters, behind a
\* leading sign; a string already that long is returned as it is.
zfill(s, width) ==
  IF Len(s) >= width THEN s
  ELSE IF s # <<>> /\ Head(s) \in {"+", "-"}
       THEN <<Head(s)>> \o Zeros(width - Len(s)) \o Tail(s)
       ELSE Zeros(width - Len(s)) \o s

\* ------------------------------------------------- extract_invoice_amount

TOTAL_LABEL == "Total Due USD"

\* Length of the longest prefix of s made of digits and commas: [\d,]+ is
\* greedy and the "." that must follow is not in its class.
RECURSIVE IntPartLen(_)
IntPartLen(s) ==
  IF s # <<>> /\ (IsDigit(Head(s)) \/ Head(s) = ",")
  THEN 1 + IntPartLen(Tail(s))
  ELSE 0

\* ([\d,]+\.\d{2}) matched at the start of s
AmountMatches(s) ==
  LET p == IntPartLen(s)
  IN /\ p >= 1
     /\ Len(s) >= p + 1 + Decimals
     /\ s[p + 1] = "."
     /\ \A i \in 1..Decimals : IsDigit(s[p + 1 + i])

\* The decimal value of the digits of s, commas left out (.replace(",", ""))
RECURSIVE DigitsValue(_, _)
DigitsValue(s, acc) ==
  IF s = <<>> THEN acc
  ELSE IF Head(s) = "," THEN DigitsValue(Tail(s), acc)
  ELSE DigitsValue(Tail(s), 10 * acc + DigitVal(Head(s)))

\* int(text): white space around, a sign, then digits of any script with
\* single underscores between them; ok = FALSE is the ValueError.
IntLiteral(text) ==
  LET t == TrimRight(TrimLeft(text, INT_WHITESPACE), INT_WHITESPACE)
      signed == t # <<>> /\ Head(t) \in {"+", "-"}
      body == IF signed THEN Tail(t) ELSE t
      n == Len(body)
  IN [ok |-> /\ n >= 1
             /\ \A i \in 1..n :
                   \/ IsDigit(body[i])
                   \/ /\ body[i] = "_"
                      /\ 1 < i /\ i < n
                      /\ IsDigit(body[i - 1]) /\ IsDigit(body[i + 1]),
      value |-> LET v == DigitsValue(SelectSeq(body, IsDigit), 0)
                IN IF signed /\ Head(t) = "-" THEN -v ELSE v]

\* float(match.group(1).replace(",", "")), in cents
AmountValue(s) ==
  LET p == IntPartLen(s)
  IN DigitsValue(SubSeq(s, 1, p), 0) * CentsPerUnit
       + DigitsValue(SubSeq(s, p + 2, p + 1 + Decimals), 0)

\* One piece of the page's text: a label, the white space behind it (gap
\* characters) and the text that follows.
LineMatches(line) ==
  line.label = TOTAL_LABEL /\ line.gap >= 1 /\ AmountMatches(line.rest)

\* re.search over doc[0].get_text(): the first place the pattern matches.
\* found = FALSE is the ValueError("Amount not found in PDF ...").
extract_invoice_amount(pdf) ==
  IF \E i \in 1..Len(pdf) : LineMatches(pdf[i])
  THEN LET i == CHOOSE i \in 1..Len(pdf) :
                  LineMatches(pdf[i]) /\ \A j \in 1..(i - 1) : ~LineMatches(pdf[j])
       IN [found |-> TRUE, cents |-> AmountValue(pdf[i].rest)]
  ELSE [found |-> FALSE, cents |-> 0]

\* ------------------------------------------------------------ float values

\* A float of the allocation: finite (the exact fraction num/den of a cent,
\* den > 0), inf, -inf or nan.
Fin(num, den) == [k |-> "fin", num |-> num, den |-> den]
PosInf == [k |-> "inf", num |-> 0, den |-> 1]
NegInf == [k |-> "-inf", num |-> 0, den |-> 1]
NaNf == [k |-> "nan", num |-> 0, den |-> 1]

\* g / total for the float64 columns of pandas: a division by zero does not
\* raise, it gives inf, -inf or nan.
Percentage(g, total) ==
  IF total # 0
  THEN IF total > 0 THEN Fin(g, total) ELSE Fin(-g, -total)
  ELSE IF g > 0 THEN PosInf ELSE IF g < 0 THEN NegInf ELSE NaNf

\* pct * total_due_value, total_due_value >= 0 given in cents
TimesTotal(pct, cents) ==
  CASE pct.k = "fin" -> Fin(pct.num * cents, pct.den)
    [] pct.k = "nan" -> NaNf
    [] OTHER -> IF cents = 0 THEN NaNf ELSE pct

\* round(x, 2) of a finite x, in cents.  When x lies exactly half way between
\* two cents the float that stands for it lies on one side or the other of
\* the middle; up tells which.
RoundCents(x, up) ==
  LET lo == x.num \div x.den
      rem == x.num - lo * x.den
  IN IF 2 * rem < x.den THEN lo
     ELSE IF 2 * rem > x.den THEN lo + 1
     ELSE IF up THEN lo + 1 ELSE lo

IsTie(x) ==
  x.k = "fin" /\ 2 * (x.num - (x.num \div x.den) * x.den) = x.den

\* ------------------------------------------------------------ the Allocator

\* The texts of the modelled cells in Python's string order, each with its
\* characters.
Texts ==
  <<[s |-> " 12 ",
     chars |-> <<" ", "1", "2", " ">>],
    [s |-> "12",
     chars |-> <<"1", "2">>],
    [s |-> "Inv Net Amt",
     chars |-> <<"I", "n", "v", " ", "N", "e", "t", " ", "A", "m", "t">>],
    [s |-> "L01 Material Price Group Key",
     chars |-> <<"L", "0", "1", " ", "M", "a", "t", "e", "r", "i", "a",
               "l", " ", "P", "r", "i", "c", "e", " ", "G", "r", "o", "u",
               "p", " ", "K", "e", "y">>],
    [s |-> "M1",
     chars |-> <<"M", "1">>],
    [s |-> "Material",
     chars |-> <<"M", "a", "t", "e", "r", "i", "a", "l">>],
    [s |-> "Sales Report",
     chars |-> <<"S", "a", "l", "e", "s", " ", "R", "e", "p", "o", "r",
               "t">>]>>

TextOrder == [i \in 1..Len(Texts) |-> Texts[i].s]

\* The characters of a cell's text
Spelling(s) == Texts[IndexOf(TextOrder, s)].chars

\* a < b for two group keys of the same type
KeyBefore(a, b) ==
  IF a.t = "num" THEN a.n < b.n
  ELSE IndexOf(TextOrder, a.s) < IndexOf(TextOrder, b.s)

\* The positions 1..n in order
Indices(n) == [i \in 1..n |-> i]

\* Sorting keeps the rows that compare equal in the order they had.  (numpy's
\* default sort is an insertion sort up to 16 elements; the longer frames of
\* this model hold one row per group key, where the order of equal amounts
\* does not reach the result.)  before[i][j]: row i is strictly before row
\* j in the sort order.  A row lands behind the rows that are strictly
\* before it and the earlier rows it is not strictly before.  The places
\* are computed once, as a tuple, and the rows are laid out by them.
StableSort(s, before) ==
  LET n == Len(s)
      Place(i) == 1 + Cardinality({j \in 1..n :
                        before[j][i] \/ (j < i /\ ~before[i][j])})
      Placed(place) == <<>> \o [p \in 1..n |-> s[CHOOSE i \in 1..n : place[i] = p]]
  IN CHOOSE sorted \in {Placed(place) : place \in {<<>> \o [i \in 1..n |-> Place(i)]}} : TRUE

\* df.dropna(subset=[key])
dropna(df) == SelectSeq(df, LAMBDA r : ~isna(r.key))

\* Keys of two types in one column: sort_values raises a TypeError.
MixedKeys(df) == \E i, j \in 1..Len(df) : df[i].key.t # df[j].key.t

\* df.sort_values(by=key)
SortByKey(df) ==
  StableSort(df, [i \in 1..Len(df) |-> [j \in 1..Len(df) |->
                    KeyBefore(df[i].key, df[j].key)]])

\* a's amount sorts before b's in descending order: NaN amounts go last
NetBefore(a, b) ==
  a.net.t = "num" /\ (b.net.t = "nan" \/ (b.net.t = "num" /\ a.net.n > b.net.n))

\* df.sort_values(by='Inv Net Amt', ascending=False)
SortByNetDesc(df) ==
  StableSort(df, [i \in 1..Len(df) |-> [j \in 1..Len(df) |-> NetBefore(df[i], df[j])]])

\* The group keys of a frame sorted by key, ascending.
GroupKeys(df) ==
  LET firsts == SelectSeq(Indices(Len(df)),
                          LAMBDA i : i = 1 \/ df[i].key # df[i - 1].key)
  IN [k \in 1..Len(firsts) |-> df[firsts[k]].key]

\* s[lo] + ... + s[hi]
RECURSIVE SumRange(_, _, _)
SumRange(s, lo, hi) ==
  IF lo > hi THEN 0
  ELSE IF lo = hi THEN s[lo]
  ELSE LET mid == (lo + hi) \div 2
       IN SumRange(s, lo, mid) + SumRange(s, mid + 1, hi)

\* grouped['Inv Net Amt'].sum()
SumSeq(s) == SumRange(s, 1, Len(s))

\* .agg({'Inv Net Amt': 'sum'}) of one group: NaN amounts are left out
GroupSum(df, key) ==
  SumSeq([i \in 1..Len(df) |->
            IF df[i].key = key /\ df[i].net.t = "num" THEN df[i].net.n ELSE 0])

\* A text in the amount column: the sum or the division raises a TypeError.
TextNet(df) == \E i \in 1..Len(df) : df[i].net.t = "str"

\* .groupby(key).first() of the Material column: GroupBy.first takes the
\* first value of the group that is not null, NaN when there is none.
First(df, key) ==
  LET valued == {i \in 1..Len(df) : df[i].key = key /\ ~isna(df[i].material)}
  IN IF valued = {} THEN NaN
     ELSE df[CHOOSE i \in valued : \A j \in valued : i <= j].material

\* Lines 66-71: final_df, one record per group in ascending key order.
Allocate(df, total_due_value) ==
  LET keys == GroupKeys(df)
      sums == [i \in 1..Len(keys) |-> GroupSum(df, keys[i])]
      total == SumSeq(sums)
      top_materials == SortByNetDesc(df)
  IN [i \in 1..Len(keys) |->
        [key |-> keys[i],
         net |-> sums[i],
         allocated |-> TimesTotal(Percentage(sums[i], total), total_due_value),
         material |-> First(top_materials, keys[i])]]

\* ------------------------------------------------------ the output cells

\* A cell of an output row: text, a float amount (in cents, or inf / -inf),
\* or an integer.
Text(s) == [t |-> "text", s |-> s, v |-> 0]
FloatCell(cents) == [t |-> "float", s |-> <<>>, v |-> cents]
InfCell == [t |-> "inf", s |-> <<>>, v |-> 0]
NegInfCell == [t |-> "-inf", s |-> <<>>, v |-> 0]
IntCell(n) == [t |-> "int", s |-> <<>>, v |-> n]

\* ''
Blank == Text(<<>>)

\* 'NA'
NA == <<"N", "A">>

\* [''] * num_columns
BlankRow(num_columns) == [c \in 1..num_columns |-> Blank]

\* ------------------------------------------------------ the Template Binder

ITEM_HEADER == "Item_Number"
AMOUNT_HEADER == "Extended_Amount"
UPC_HEADER == "UPC_Number"
QUANTITY_HEADER == "Quantity"

\* [cell.value for cell in ws[1] if cell.value is not None]
Headers(template) ==
  LET cells == SelectSeq(template.row1, LAMBDA c : ~isna(c))
  IN [i \in 1..Len(cells) |-> cells[i].s]

\* ---------------------------------------------------------- the Row Builder

\* pd.isna(r['Material']) or pd.isna(r['Allocated Amount'])
Skipped(r) == isna(r.material) \/ r.allocated.k = "nan"

\* int(r['Material']): the number itself, or the integer a text spells
IntOf(material) ==
  IF material.t = "num" THEN [ok |-> TRUE, value |-> material.n]
  ELSE IntLiteral(Spelling(material.s))

\* int(r['Material']) of a text that spells no integer raises a ValueError.
RowRaises(r) == ~Skipped(r) /\ ~IntOf(r.material).ok

\* round(r['Allocated Amount'], 2)
Rounded(x, up) ==
  CASE x.k = "fin" -> FloatCell(RoundCents(x, up))
    [] x.k = "inf" -> InfCell
    [] OTHER -> NegInfCell

\* Lines 93-95: the row of one group
BuildRow(r, num_columns, material_index, amount_index, up) ==
  LET row == BlankRow(num_columns)
      row1 == [row EXCEPT ![material_index] = Text(IntToStr(IntOf(r.material).value))]
  IN [row1 EXCEPT ![amount_index] = Rounded(r.allocated, up)]

\* Lines 89-96: data_rows.  tieUp[i] is the side the i-th group's float falls
\* on when its exact amount is half way between two cents.
BuildRows(final_df, num_columns, material_index, amount_index, tieUp) ==
  LET kept == SelectSeq(Indices(Len(final_df)), LAMBDA i : ~Skipped(final_df[i]))
  IN [k \in 1..Len(kept) |->
        BuildRow(final_df[kept[k]], num_columns, material_index, amount_index,
                 tieUp[kept[k]])]

\* ----------------------------------------------------- the Identifier Mapper

\* Cell texts pandas reads as a missing value (keep_default_na): its
\* default list.
NA_VALUES ==
  {<<>>,
   <<"#", "N", "/", "A">>,
   <<"#", "N", "/", "A", " ", "N", "/", "A">>,
   <<"#", "N", "A">>,
   <<"-", "1", ".", "#", "I", "N", "D">>,
   <<"-", "1", ".", "#", "Q", "N", "A", "N">>,
   <<"-", "N", "a", "N">>,
   <<"-", "n", "a", "n">>,
   <<"1", ".", "#", "I", "N", "D">>,
   <<"1", ".", "#", "Q", "N", "A", "N">>,
   <<"<", "N", "A", ">">>,
   <<"N", "/", "A">>,
   <<"N", "A">>,
   <<"N", "U", "L", "L">>,
   <<"N", "a", "N">>,
   <<"N", "o", "n", "e">>,
   <<"n", "/", "a">>,
   <<"n", "a", "n">>,
   <<"n", "u", "l", "l">>}

\* A cell read with dtype=str and .astype(str): a missing value becomes 'nan'.
astype_str(cell) == IF cell \in NA_VALUES THEN <<"n", "a", "n">> ELSE cell

\* Lines 100-102: the rows below the header row, both columns as stripped text
master_df(master) ==
  LET body == Tail(master.sheet)
  IN [i \in 1..Len(body) |->
        [UPC |-> strip(astype_str(body[i][1])),
         Item_Number |-> strip(astype_str(body[i][2]))]]

\* .drop_duplicates(subset='Item_Number', keep='first')
drop_duplicates(df) ==
  LET kept == SelectSeq(Indices(Len(df)),
                        LAMBDA i : \A j \in 1..(i - 1) : df[j].Item_Number # df[i].Item_Number)
  IN [k \in 1..Len(kept) |-> df[kept[k]]]

\* dict(zip(master_df['Item_Number'], master_df['UPC']))
upc_lookup(master) == drop_duplicates(master_df(master))

\* upc_lookup.get(item, 'NA')
Get(lookup, item) ==
  IF \E i \in 1..Len(lookup) : lookup[i].Item_Number = item
  THEN lookup[CHOOSE i \in 1..Len(lookup) : lookup[i].Item_Number = item].UPC
  ELSE NA

\* '="' + upc_value + '"'
Formula(code) == <<"=", "\"">> \o code \o <<"\"">>

\* Lines 107-114: the UPC cell of one row
UpcCell(lookup, item) ==
  LET upc_value == Get(lookup, item)
  IN IF upc_value # NA
     THEN Text(Formula(zfill(upc_value, UpcWidth)))
     ELSE Text(NA)

\* Lines 99-118.  A master file that cannot be read raises inside the try:
\* the handler prints and the rows stay as they were.
MapUpc(data_rows, master, material_index, upc_index) ==
  IF ~master.readable THEN data_rows
  ELSE LET lookup == upc_lookup(master)
       IN [i \in 1..Len(data_rows) |->
             [data_rows[i] EXCEPT
                ![upc_index] = UpcCell(lookup, strip(data_rows[i][material_index].s))]]

\* -------------------------------------------------------------- the Finalizer

\* Lines 121-125
FillQuantity(data_rows, material_index, quantity_index) ==
  [i \in 1..Len(data_rows) |->
     [data_rows[i] EXCEPT
        ![quantity_index] =
           IF data_rows[i][material_index] \notin {Blank, Text(NA)}
           THEN IntCell(1) ELSE Blank]]

\* The padding loop with the wrong comparison: while len(data_rows) <= 100.
Pad_OneTooMany(data_rows, num_columns) ==
  IF Len(data_rows) <= MinRows
  THEN data_rows \o [i \in 1..(MinRows + 1 - Len(data_rows)) |-> BlankRow(num_columns)]
  ELSE data_rows

\* while len(data_rows) < 100: data_rows.append([''] * num_columns)
Pad(data_rows, num_columns) ==
  IF Len(data_rows) < MinRows
  THEN data_rows \o [i \in 1..(MinRows - Len(data_rows)) |-> BlankRow(num_columns)]
  ELSE data_rows

\* ------------------------------------------------------------------ files

\* A file name: os.path.splitext splits it into stem and extension.
FileName(stem, ext) == [stem |-> stem, ext |-> ext]

\* os.path.splitext(os.path.basename(input_file_path))[0] + '.pdf'
PdfNameFor(input_name) == FileName(input_name.stem, "pdf")

\* os.path.splitext(os.path.basename(input_file_path))[0] + '.csv'
CsvNameFor(input_name) == FileName(input_name.stem, "csv")

Stems == {"a", "b"}

InputNames == {FileName(st, ext) : st \in Stems, ext \in {"xlsx", "pdf"}}
OutputNames == {FileName(st, "csv") : st \in Stems}

NoFile == [exists |-> FALSE, data |-> <<>>]
File(data) == [exists |-> TRUE, data |-> data]

\* --------------------------------------------------- process_excel_file

\* What one run of process_excel_file did: how it ended, the skip count the
\* header loop stopped at, whether it opened the PDF, the total it extracted
\* (cents), the number of rows in data_rows before padding, and the file it
\* wrote to the output folder (NoFile: none).
Result(outcome, skip, pdf_read, total, n_rows, written) ==
  [outcome |-> outcome, skip |-> skip, pdf_read |-> pdf_read, total |-> total,
   n_rows |-> n_rows, written |-> written]

\* A run that ends before anything is written
Ends(outcome, skip, pdf_read, total) == Result(outcome, skip, pdf_read, total, 0, NoFile)

\* csv_df.to_csv(output_path, index=False): the header line and the rows
Csv(headers, rows) == File([headers |-> headers, rows |-> rows])

\* Lines 88-135, once the four column indices are resolved
WriteCsv(final_df, headers, master, tieUp, skip, total) ==
  LET num_columns == Len(headers)
      material_index == IndexOf(headers, ITEM_HEADER)
      amount_index == IndexOf(headers, AMOUNT_HEADER)
      upc_index == IndexOf(headers, UPC_HEADER)
      quantity_index == IndexOf(headers, QUANTITY_HEADER)
      built == BuildRows(final_df, num_columns, material_index, amount_index,
                         [i \in 1..Len(final_df) |-> i \in tieUp])
      mapped == MapUpc(built, master, material_index, upc_index)
      data_rows == FillQuantity(mapped, material_index, quantity_index)
  IN Result("ok", skip, TRUE, total, Len(data_rows),
            Csv(headers, Pad(data_rows, num_columns)))

\* The export with the CSV created before the column names are resolved: a
\* template without the four names leaves a CSV of blank rows behind.
Emit_WritesBeforeHeaderCheck(final_df, template, master, tieUp, skip, total) ==
  IF ~template.has_sheet
  THEN Ends("raised", skip, TRUE, total)
  ELSE LET headers == Headers(template)
       IN IF \E h \in {ITEM_HEADER, AMOUNT_HEADER, UPC_HEADER, QUANTITY_HEADER} :
               IndexOf(headers, h) = 0
          THEN Result("template_headers", skip, TRUE, total, 0,
                      Csv(headers, Pad(<<>>, Len(headers))))
          ELSE IF \E i \in 1..Len(final_df) : RowRaises(final_df[i])
          THEN Ends("raised", skip, TRUE, total)
          ELSE WriteCsv(final_df, headers, master, tieUp, skip, total)

\* Lines 73-135.  tieUp is the set of groups whose float is on the upper
\* side when the exact allocated amount is half way between two cents.
Emit(final_df, template, master, tieUp, skip, total) ==
  IF ~template.has_sheet
  THEN Ends("raised", skip, TRUE, total)
  ELSE LET headers == Headers(template)
       IN IF \E h \in {ITEM_HEADER, AMOUNT_HEADER, UPC_HEADER, QUANTITY_HEADER} :
               IndexOf(headers, h) = 0
          THEN Ends("template_headers", skip, TRUE, total)
          ELSE IF \E i \in 1..Len(final_df) : RowRaises(final_df[i])
          THEN Ends("raised", skip, TRUE, total)
          ELSE WriteCsv(final_df, headers, master, tieUp, skip, total)

\* The groups whose exact allocated amount is half way between two cents.
TieGroups(final_df) == {i \in 1..Len(final_df) : IsTie(final_df[i].allocated)}

\* process_excel_file(input_file_path, template_path, output_folder,
\* master_file_path), the files of the input folder given by `folder`: the
\* set of the results the run can have, one unless an amount is a tie.
\* Outcomes: "ok" (CSV written); the four returns without output,
\* "header_not_found", "pdf_missing", "amount_not_found", "template_headers";
\* and "raised", an exception that leaves the function.
process_excel_file(folder, input_name, template, master) ==
  LET sheet == folder[input_name].data
      skip == LocateHeader(sheet, 0)
      unsorted == dropna(Project(read_excel(sheet, skip)))
      df == SortByKey(unsorted)
      pdf_name == PdfNameFor(input_name)
      amount == extract_invoice_amount(folder[pdf_name].data)
  IN IF skip = SkipTries THEN {Ends("header_not_found", skip, FALSE, 0)}
     ELSE IF MixedKeys(unsorted) THEN {Ends("raised", skip, FALSE, 0)}
     ELSE IF ~folder[pdf_name].exists THEN {Ends("pdf_missing", skip, FALSE, 0)}
     ELSE IF ~amount.found THEN {Ends("amount_not_found", skip, TRUE, 0)}
     ELSE IF TextNet(df) THEN {Ends("raised", skip, TRUE, amount.cents)}
     ELSE UNION {{Emit(final_df, template, master, tieUp, skip, amount.cents) :
                    tieUp \in SUBSET TieGroups(final_df)} :
                 final_df \in {Allocate(df, amount.cents)}}

\* ------------------------------------------------------------------ state

VARIABLES
  inputFolder,    \* INPUT_FOLDER: file name -> file
  outputFolder,   \* OUTPUT_FOLDER: file name -> file
  templateFile,   \* the file at TEMPLATE_PATH
  masterFile,     \* the file at MASTER_FILE_PATH
  inbox,          \* the upload requests still to arrive, in order
  request,        \* the names of the upload request answered last
  job,            \* what the last run of process_excel_file did
  response        \* the HTTP status answered last (0: none yet)

vars == <<inputFolder, outputFolder, templateFile, masterFile, inbox, request, job,
          response>>

NoJob == [outcome |-> "none", skip |-> 0, pdf_read |-> FALSE, total |-> 0, n_rows |-> 0]
NoRequest == [excel |-> "", pdf |-> ""]

\* An upload request: whether each form field is present, the two secured
\* file names (their stems) and the two files' contents.
Upload(has_excel, has_pdf, excel_stem, pdf_stem, sheet, pdf) ==
  [has_excel |-> has_excel, has_pdf |-> has_pdf, excel |-> excel_stem,
   pdf |-> pdf_stem, sheet |-> sheet, text |-> pdf]

\* process_invoice(): POST /process-invoice for the request at the head of
\* the inbox.
process_invoice ==
  /\ inbox # <<>>
  /\ LET req == Head(inbox)
         excel_name == FileName(req.excel, "xlsx")
         pdf_name == FileName(req.pdf, "pdf")
         saved == [inputFolder EXCEPT ![excel_name] = File(req.sheet),
                                      ![pdf_name] = File(req.text)]
     IN /\ inbox' = Tail(inbox)
        /\ UNCHANGED <<templateFile, masterFile>>
        /\ IF ~req.has_excel \/ ~req.has_pdf
           THEN /\ response' = 400
                /\ request' = NoRequest
                /\ job' = NoJob
                /\ UNCHANGED <<inputFolder, outputFolder>>
           ELSE \E res \in process_excel_file(saved, excel_name, templateFile, masterFile) :
                     /\ inputFolder' = saved
                     /\ request' = [excel |-> req.excel, pdf |-> req.pdf]
                     /\ job' = [outcome |-> res.outcome, skip |-> res.skip,
                                pdf_read |-> res.pdf_read, total |-> res.total,
                                n_rows |-> res.n_rows]
                     /\ outputFolder' =
                          IF res.written.exists
                          THEN [outputFolder EXCEPT ![CsvNameFor(excel_name)] = res.written]
                          ELSE outputFolder
                     /\ response' = IF res.outcome = "raised" THEN 500 ELSE 200

Next == process_invoice

\* ------------------------------------------------------------ the inputs

\* Bounds of the enumerated inputs.
MaxRows == 2
MaxRequests == 2
MaxMasterRows == 2

HeaderRow == <<Str(KEY_COL), Str(AMT_COL), Str(MAT_COL)>>
\* Rows found above a header: a title, and a row with two of the three names.
TitleRow == <<Str("Sales Report"), NaN, NaN>>
PartialRow == <<Str(KEY_COL), Str(AMT_COL), NaN>>

Row(key, net, material) == <<key, net, material>>

\* All sequences over S of length at most n
SeqsUpTo(S, n) == UNION {[1..k -> S] : k \in 0..n}

\* The spec's end-to-end scenario, amounts in hundreds: group 1 with 1 and 3
\* (material 8 on the larger), group 2 with 6.
GoodSheet ==
  <<HeaderRow, Row(Num(1), Num(1), Num(7)), Row(Num(1), Num(3), Num(8)),
    Row(Num(2), Num(6), Num(9))>>

NoHeaderSheet == <<TitleRow, PartialRow, Row(Num(1), Num(1), Num(7))>>

\* n groups of one row each, net amount 1; with holes, every third group has
\* no material.
WideSheet(n, holes) ==
  <<HeaderRow>> \o
  [i \in 1..n |-> Row(Num(i), Num(1), IF holes /\ i % 3 = 0 THEN NaN ELSE Num(7))]

\* The text of a page whose total line carries `rest` behind `gap` blanks.
Page(label, gap, rest) ==
  <<[label |-> "Invoice No", gap |-> 1, rest |-> <<"4", "2">>],
    [label |-> label, gap |-> gap, rest |-> rest]>>

Pdf1000 == Page(TOTAL_LABEL, 1, <<"1", ",", "0", "0", "0", ".", "0", "0">>)
Pdf10 == Page(TOTAL_LABEL, 2, <<"1", "0", ".", "0", "0", "5">>)
Pdf002 == Page(TOTAL_LABEL, 1, <<"0", ".", "0", "2">>)
Pdf0 == Page(TOTAL_LABEL, 1, <<",", ".", "0", "0">>)
PdfSubtotal == Page("Subtotal USD", 1, <<"1", "0", ".", "0", "0">>)
PdfNoGap == Page(TOTAL_LABEL, 0, <<"1", "0", ".", "0", "0">>)
PdfOneDecimal == Page(TOTAL_LABEL, 1, <<"1", "0", ".", "0">>)
PdfNegative == Page(TOTAL_LABEL, 1, <<"-", "5", ".", "0", "0">>)
\* 12.34 in Arabic-Indic digits
PdfArabic == Page(TOTAL_LABEL, 1, <<"U+0661", "U+0662", ".", "U+0663", "U+0664">>)

GoodTemplate ==
  [has_sheet |-> TRUE,
   row1 |-> <<Str(ITEM_HEADER), Str(AMOUNT_HEADER), Str(UPC_HEADER), Str(QUANTITY_HEADER)>>]
GappedTemplate ==
  [has_sheet |-> TRUE,
   row1 |-> <<Str("Vendor"), NaN, Str(QUANTITY_HEADER), Str(UPC_HEADER), NaN,
              Str(AMOUNT_HEADER), Str(ITEM_HEADER)>>]
NoQuantityTemplate ==
  [has_sheet |-> TRUE,
   row1 |-> <<Str(ITEM_HEADER), Str(AMOUNT_HEADER), Str(UPC_HEADER)>>]
NoSheetTemplate == [has_sheet |-> FALSE, row1 |-> <<>>]

MasterHeader == <<<<"U", "P", "C">>, <<"I", "t", "e", "m">>>>

Master(rows) == [readable |-> TRUE, sheet |-> <<MasterHeader>> \o rows]
UnreadableMaster == [readable |-> FALSE, sheet |-> <<>>]

\* Item 8 twice (the first code counts), item 9 absent.
GoodMaster ==
  Master(<<<<<<"1", "2", "3", "4", "5">>, <<"8">>>>,
           <<<<"9", "9">>, <<" ", "8">>>>,
           <<<<"4", "4">>, <<"7", " ">>>>>>)

\* Codes and identifiers of the enumerated master files.
MasterCodes ==
  {<<"5">>, <<"-", "5">>, <<" ", "N", "A">>, <<"N", "A">>, <<"n", "/", "a">>,
   <<"1", "2", "3", "4", "5", "6", "7", "8", "9", "0", "1", "2">>,
   <<"1", "2", "3", "4", "5", "6", "7", "8", "9", "0", "1", "2", "3">>}
MasterItems == {<<"7">>, <<"8">>, <<" ", "8">>, <<"\t", "8">>, <<"9">>}

\* ------------------------------------------------------------------- Init

\* The state after start-up: empty folders, the two reference files in
\* place, and the uploads that are going to arrive.
InitWith(Templates, Masters, Outputs, Inboxes) ==
  /\ inputFolder = [n \in InputNames |-> NoFile]
  /\ outputFolder \in Outputs
  /\ templateFile \in Templates
  /\ masterFile \in Masters
  /\ inbox \in Inboxes
  /\ request = NoRequest
  /\ job = NoJob
  /\ response = 0

\* Uploads under either name, of a good and a header-less spreadsheet, with
\* a PDF that carries the total and one that does not; and one upload with a
\* missing form field.
Requests ==
  {Upload(TRUE, TRUE, x, p, sheet, pdf) :
     x \in Stems, p \in Stems, sheet \in {GoodSheet, NoHeaderSheet},
     pdf \in {Pdf1000, PdfSubtotal}}
  \cup {Upload(TRUE, FALSE, "a", "a", GoodSheet, Pdf1000)}

\* The output folder at start-up: empty, or holding the CSV an earlier run of
\* the service left there.
EmptyOutput == [n \in OutputNames |-> NoFile]
OldOutput ==
  [EmptyOutput EXCEPT ![FileName("a", "csv")] = Csv(<<ITEM_HEADER>>, <<<<Text(<<"1">>)>>>>)]

Init ==
  InitWith({GoodTemplate, NoQuantityTemplate, NoSheetTemplate},
           {GoodMaster, UnreadableMaster}, {EmptyOutput, OldOutput},
           SeqsUpTo(Requests, MaxRequests))

Spec == Init /\ [][Next]_vars

\* One upload of a spreadsheet with the header on top and up to MaxRows line
\* items (or a few one-row groups), with a PDF total of 10.00, 0.02 or 0.00.
AllocCells ==
  [key : {NaN, Num(1), Num(2)},
   net : {NaN} \cup {Num(n) : n \in (-MaxNet)..MaxNet},
   material : {NaN, Num(7), Num(8), Str("M1"), Str(" 12 ")}]

AllocSheets ==
  {<<HeaderRow>> \o [i \in 1..Len(d) |-> Row(d[i].key, d[i].net, d[i].material)] :
     d \in SeqsUpTo(AllocCells, MaxRows)}
  \cup {WideSheet(n, holes) : n \in 3..6, holes \in BOOLEAN}

AllocRequests ==
  {Upload(TRUE, TRUE, "a", "a", sheet, pdf) :
     sheet \in AllocSheets, pdf \in {Pdf10, Pdf002, Pdf0}}

InitAlloc ==
  InitWith({GoodTemplate}, {GoodMaster}, {EmptyOutput}, {<<r>> : r \in AllocRequests})

SpecAlloc == InitAlloc /\ [][Next]_vars

\* One upload of the good spreadsheet, the master file being any sheet of up
\* to MaxMasterRows rows over the codes and identifiers above.
MapMasters ==
  {Master(rows) :
     rows \in SeqsUpTo({<<c, i>> : c \in MasterCodes, i \in MasterItems}, MaxMasterRows)}

InitMap ==
  InitWith({GoodTemplate, GappedTemplate}, MapMasters, {EmptyOutput},
           {<<Upload(TRUE, TRUE, "a", "a", GoodSheet, Pdf1000)>>})

SpecMap == InitMap /\ [][Next]_vars

\* One upload of a spreadsheet with up to MaxLead rows above its header (if
\* it has one), the header possibly repeated below itself.
LineItems == SubSeq(GoodSheet, 2, Len(GoodSheet))

HeaderTails ==
  {<<>>,
   <<HeaderRow>> \o LineItems,
   <<HeaderRow, Row(Num(2), Num(5), Num(9))>>,
   <<HeaderRow, HeaderRow>>,
   <<HeaderRow, HeaderRow>> \o LineItems}

HeaderSheets ==
  {lead \o tail : lead \in SeqsUpTo({TitleRow, PartialRow}, MaxLead), tail \in HeaderTails}

InitHeader ==
  InitWith({GoodTemplate}, {GoodMaster}, {EmptyOutput},
           {<<Upload(TRUE, TRUE, "a", "a", sheet, pdf)>> :
              sheet \in HeaderSheets,
              pdf \in {Pdf1000, PdfArabic, PdfSubtotal, PdfNoGap, PdfOneDecimal,
                       PdfNegative}})

SpecHeader == InitHeader /\ [][Next]_vars

\* One upload of a spreadsheet with n one-row groups, n small or around the
\* minimum row count of the output.
WideSizes == 0..3 \cup (MinRows - 3)..MaxGroups

InitPad ==
  InitWith({GoodTemplate, GappedTemplate}, {GoodMaster, UnreadableMaster}, {EmptyOutput},
           {<<Upload(TRUE, TRUE, "a", "a", WideSheet(n, holes), pdf)>> :
              n \in WideSizes, holes \in BOOLEAN, pdf \in {Pdf1000, Pdf002}})

SpecPad == InitPad /\ [][Next]_vars

\* ======================================================================
\* Properties
\* ======================================================================

\* The four ways a job ends by returning without output.
AbortKinds == {"header_not_found", "pdf_missing", "amount_not_found", "template_headers"}

\* The spreadsheet the last job worked on and the CSV path it writes to.
JobSheet == inputFolder[FileName(request.excel, "xlsx")].data
JobCsv == outputFolder[FileName(request.excel, "csv")].data

\* The data rows the last job emitted: the CSV's rows in front of the padding.
Emitted == IF job.outcome = "ok" THEN SubSeq(JobCsv.rows, 1, job.n_rows) ELSE <<>>

\* The position of a template column in the output rows.
Column(h) == IndexOf(Headers(templateFile), h)

\* The Item_Number cells of the rows built from final_df.
ItemsOf(final_df) ==
  LET kept == SelectSeq(final_df, LAMBDA r : ~Skipped(r))
  IN [i \in 1..Len(kept) |-> Text(IntToStr(IntOf(kept[i].material).value))]

EmittedItems == [i \in 1..Len(Emitted) |-> Emitted[i][Column(ITEM_HEADER)]]

\* ---------------------------------------------------------------- C2
\* C2 (as claimed): with the master file loaded, the UPC_Number cell of an
\* emitted row whose identifier is a key of the lookup is ="<code>", the
\* looked-up code (first occurrence) padded with zeros to exactly 12
\* characters, whatever the code is; the cell of a row whose identifier is no
\* key is "NA".
C2_UpcCellPadded ==
  (job.outcome = "ok" /\ masterFile.readable) =>
     \A i \in 1..Len(Emitted) :
        LET item == Emitted[i][Column(ITEM_HEADER)].s
            table == master_df(masterFile)
            hits == {j \in 1..Len(table) : table[j].Item_Number = item}
            code == zfill(table[CHOOSE j \in hits : \A k \in hits : j <= k].UPC, UpcWidth)
            cell == Emitted[i][Column(UPC_HEADER)]
        IN IF hits # {}
           THEN cell = Text(Formula(code)) /\ Len(code) = UpcWidth
           ELSE cell = Text(NA)

\* ---------------------------------------------------------------- C3
\* C3 (as claimed): every job-level failure reached through the upload
\* operation is answered with status 500, and status 200 is answered only
\* when the job produced its CSV.
C3_FailuresAnswered500 ==
  /\ job.outcome \in AbortKinds => response = 500
  /\ response = 200 => job.outcome = "ok"

\* ---------------------------------------------------------------- C4
\* C4 (as claimed): when the master file cannot be loaded the job still
\* writes its CSV, and every emitted data row has "NA" in its UPC_Number cell.
C4_UnreadableMasterGivesNA ==
  (~masterFile.readable /\ job.outcome = "ok") =>
     \A i \in 1..Len(Emitted) : Emitted[i][Column(UPC_HEADER)] = Text(NA)

\* ---------------------------------------------------------------- C5
\* C5: a job that ends with header-not-found, missing-companion-pdf,
\* amount-extraction-failure or missing-template-headers leaves the output
\* folder as it was: the same files with the same contents.
C5_AbortWritesNothing ==
  [][job'.outcome \in AbortKinds => outputFolder' = outputFolder]_vars

\* C5's case: a job for a spreadsheet aborted while the output folder held a
\* CSV for that very spreadsheet, and another file or not.
C5_Witness ==
  /\ job.outcome \in AbortKinds
  /\ outputFolder[FileName(request.excel, "csv")].exists

\* --------------------------------------------------------------- C10
\* C10 (as claimed): the PDF a job reads is the PDF uploaded in the same
\* request; a job never reads a PDF that an earlier request stored.
C10_JobReadsOwnPdf ==
  job.pdf_read => request.pdf = request.excel

\* ---------------------------------------------------------------- C1
\* The frame the last job allocated over, and the sum of its net amounts.
JobFrame == SortByKey(dropna(Project(read_excel(JobSheet, job.skip))))
JobNetTotal ==
  SumSeq([i \in 1..Len(JobFrame) |->
            IF JobFrame[i].net.t = "num" THEN JobFrame[i].net.n ELSE 0])

\* The sum of the Extended_Amount cells of the emitted rows, in cents.
EmittedAmount == SumSeq([i \in 1..Len(Emitted) |-> Emitted[i][Column(AMOUNT_HEADER)].v])

\* C1 (as claimed): for a completed job with a non-zero sum of net amounts,
\* the Extended_Amount cells of the emitted rows add up to the extracted
\* invoice total, within one cent.
C1_AllocationAddsUp ==
  (job.outcome = "ok" /\ JobNetTotal # 0) =>
     /\ EmittedAmount - job.total <= 1
     /\ job.total - EmittedAmount <= 1

\* ---------------------------------------------------------------- C8
\* The rows of a group in the order of the frame.
GroupRows(df, key) == SelectSeq(df, LAMBDA r : r.key = key)

\* a's net amount is below b's (a missing amount is below every amount)
NetBelow(a, b) ==
  b.net.t = "num" /\ (a.net.t # "num" \/ a.net.n < b.net.n)

\* The first row of the group that no row of the group exceeds.
MaxRow(rows) ==
  rows[CHOOSE i \in 1..Len(rows) :
         /\ \A j \in 1..Len(rows) : ~NetBelow(rows[i], rows[j])
         /\ \A j \in 1..(i - 1) : NetBelow(rows[j], rows[i])]

\* The Item_Number cells the emitted rows would have if every group carried
\* the material of its maximum-amount row: one per group, in key order, of
\* those whose material and allocated amount are present.
ItemsByMaxRow ==
  LET final_df == Allocate(JobFrame, job.total)
      claimed == [i \in 1..Len(final_df) |->
                    [material |-> MaxRow(GroupRows(JobFrame, final_df[i].key)).material,
                     allocated |-> final_df[i].allocated]]
      kept == SelectSeq(claimed, LAMBDA r : ~Skipped(r))
  IN [i \in 1..Len(kept) |-> Text(IntToStr(IntOf(kept[i].material).value))]

\* C8 (as claimed): each group carries the material of its maximum-amount
\* row (the first such row), and a group whose maximum-amount row has no
\* material is skipped.
C8_MaterialOfMaxRow ==
  job.outcome = "ok" => EmittedItems = ItemsByMaxRow

\* ---------------------------------------------------------------- C9
\* C9 (as claimed): when the net amounts sum to zero every percentage is
\* zero, so each emitted row carries a finite Extended_Amount of zero.
C9_ZeroTotalHandled ==
  (job.outcome = "ok" /\ JobNetTotal = 0) =>
     \A i \in 1..Len(Emitted) :
        /\ Emitted[i][Column(AMOUNT_HEADER)].t = "float"
        /\ Emitted[i][Column(AMOUNT_HEADER)].v = 0

\* ---------------------------------------------------------------- C6
\* C6: a CSV written by a job carries the template's headers and at least
\* 100 rows, each as wide as the template's header list; the first n rows
\* are the allocation rows; with n < 100 there are exactly 100 rows and
\* rows n+1..100 are blank in every cell; with n >= 100 there are n rows,
\* none of them an appended blank one.
C6_PaddedTo100 ==
  job.outcome = "ok" =>
     LET rows == JobCsv.rows
         n == job.n_rows
         width == Len(Headers(templateFile))
     IN /\ JobCsv.headers = Headers(templateFile)
        /\ Len(rows) >= MinRows
        /\ \A i \in 1..Len(rows) : Len(rows[i]) = width
        /\ \A i \in 1..n : rows[i][Column(ITEM_HEADER)] # Blank
        /\ n < MinRows =>
             /\ Len(rows) = MinRows
             /\ \A i \in (n + 1)..MinRows : \A c \in 1..width : rows[i][c] = Blank
        /\ n >= MinRows => Len(rows) = n

\* C6's case: a job wrote more allocation rows than the minimum, under a
\* template with empty header cells.
C6_Witness ==
  /\ job.outcome = "ok"
  /\ job.n_rows > MinRows
  /\ templateFile = GappedTemplate

\* ---------------------------------------------------------------- C7
\* The header row sits at offset k: the row behind the first k rows holds
\* the three required names.
HeaderAt(sheet, k) ==
  /\ k < Len(sheet)
  /\ \A name \in {KEY_COL, AMT_COL, MAT_COL} :
        \E c \in 1..Len(sheet[k + 1]) : sheet[k + 1][c] = Str(name)

Qualifying == {k \in 0..(SkipTries - 1) : HeaderAt(JobSheet, k)}

\* C7: the job stops at the least offset in 0..4 at which the header row
\* sits and works on the rows below it; when there is no such offset the
\* job ends with header-not-found, and the upload is answered without an
\* exception having reached it.
C7_FirstHeaderOffset ==
  request # NoRequest =>
     IF Qualifying = {}
     THEN job.outcome = "header_not_found" /\ job.skip = SkipTries /\ response = 200
     ELSE LET k == CHOOSE k \in Qualifying : \A j \in Qualifying : k <= j
              frame == SortByKey(dropna(Project(read_excel(JobSheet, k))))
          IN /\ job.skip = k
             /\ job.outcome # "header_not_found"
             /\ job.outcome = "ok" => EmittedItems = ItemsOf(Allocate(frame, job.total))

\* C7's case: the header was found at the last offset tried, below a row
\* that holds two of the three names, and the job went on to write its rows.
C7_Witness ==
  /\ job.outcome = "ok"
  /\ job.skip = SkipTries - 1
  /\ JobSheet[1] = PartialRow
  /\ Len(Emitted) > 0

=============================================================================
